---- MODULE Spec2Model ----
(***************************************************************************)
(* State-machine model of the valentine-portraits API:                     *)
(*   - POST /generate and generatePortrait   (routes/generate.js 1-67,     *)
(*     the image service in unnamed/part_000)                              *)
(*   - generatePortraitPack                  (services/imageGenerator.js)  *)
(*   - create-checkout, download, webhook    (routes/generate.js 69-385)   *)
(* Strings are sequences of atoms; a template string is a concatenation,   *)
(* so `${a}_${b}` is a \o <<"_">> \o b and split('_') is computed on it.    *)
(***************************************************************************)
EXTENDS Naturals, Sequences, FiniteSets, TLC

VARIABLES
  env,               \* process.env: which credentials are set
  clock,             \* the reading Date.now() returns
  uuids,             \* how many values uuidv4() has returned
  imageStore,        \* Map imageId -> metadata
  bucket,            \* Supabase storage: path -> object
  checkoutSessions,  \* Map sessionId -> {imageIds, paid}
  gateway,           \* Stripe's checkout sessions: id -> {payment_status, metadata}
  inflight,          \* create-checkout requests awaiting sessions.create
  pack,              \* the generatePortraitPack run, if one is in progress
  other,             \* a second generatePortraitPack run, concurrent with the first
  issued,            \* every result list a finished pack returned
  last               \* the last request answered and its response

vars == <<env, clock, uuids, imageStore, bucket, checkoutSessions, gateway,
          inflight, pack, other, issued, last>>

(* ------------------------------ bounds -------------------------------- *)
MaxUuid == 2
MaxClock == 0
MaxCheckout == 1
MaxIds == 2

(* ------------------------------ strings ------------------------------- *)
\* mutant: the generator returns the same value every time
uuidv4Fixed(n) == <<"uuid-1">>

uuidv4(n) == <<"uuid-" \o ToString(n)>>
stripeId(n) == <<"cs", "_", "test", "_", ToString(n)>>
EmptyMap == [k \in {} |-> TRUE]
MapSet(m, k, v) == [x \in DOMAIN m \cup {k} |-> IF x = k THEN v ELSE m[x]]
startsWith(s, p) == Len(s) >= Len(p) /\ SubSeq(s, 1, Len(p)) = p

\* a call's result: a value, or the error it threw
Ok(v) == [ok |-> TRUE, val |-> v, err |-> ""]
Throw(e) == [ok |-> FALSE, val |-> <<>>, err |-> e]

(* ============== image service: unnamed/part_000 ======================= *)
validThemes == <<"renaissance", "vangogh", "ghibli", "disney", "anime", "watercolor">>
includes(seq, x) == \E i \in 1..Len(seq) : seq[i] = x

themePrompts == {"renaissance", "vangogh", "ghibli", "disney", "anime", "watercolor"}
sharpTransforms == {"renaissance", "vangogh", "ghibli", "disney", "anime", "watercolor"}

HeicBrands == {"heic", "heix", "hevc", "hevx", "heim", "heis", "mif1"}
toLowerCase(s) == IF s = "HEIC" THEN "heic" ELSE s
isHeic(buffer) ==
  IF buffer.length < 12 THEN FALSE
  ELSE toLowerCase(buffer.brand) \in HeicBrands

\* heic-convert: throws, or returns a fresh JPEG buffer
convertHeicToJpeg(buffer) ==
  IF buffer.conv
  THEN Ok([kind |-> "converted", length |-> buffer.length, brand |-> "JFIF",
           conv |-> FALSE, dec |-> buffer.dec])
  ELSE Throw("heic-convert")

\* sharp(...).toBuffer(): throws on bytes it cannot decode, else a re-encoded JPEG
sharpEncode(buffer, chain, w, h, fit, quality) ==
  IF buffer.dec
  THEN Ok([kind |-> "sharp", from |-> buffer.kind, chain |-> chain,
           w |-> w, h |-> h, fit |-> fit, quality |-> quality, dec |-> TRUE])
  ELSE Throw("sharp")

preprocessImage(imageBuffer) ==
  LET conv == IF isHeic(imageBuffer) THEN convertHeicToJpeg(imageBuffer)
              ELSE Ok(imageBuffer)
  IN IF ~conv.ok THEN conv
     ELSE LET buffer == conv.val
              enc == sharpEncode(buffer, "rotate", 1500, 1500, "inside", 95)
          IN IF enc.ok THEN enc
             ELSE IF buffer # imageBuffer THEN Ok(buffer)
             ELSE enc

\* o.gem is what model.generateContent does: "image", "noimage" or "throws";
\* o.aiDec tells whether the returned image bytes can be decoded
generateWithGemini(imageBuffer, theme, o) ==
  IF ~env.gemini THEN Throw("Gemini API not configured")
  ELSE LET themeConfig == IF theme \in themePrompts THEN theme ELSE "ghibli"
       IN CASE o.gem = "throws" -> Throw("generateContent")
            [] o.gem = "noimage" -> Throw("No image generated in response")
            [] OTHER -> Ok([kind |-> "ai", prompt |-> themeConfig, dec |-> o.aiDec])

uploadPath(imageId) == <<"valentines", "/">> \o imageId \o <<".jpg">>
getPublicUrl(filename) == <<"https://supabase/public/images", "/">> \o filename

\* the bucket after upload(filename, bytes, {upsert: true})
upsert(bkt, filename, imageBuffer) == MapSet(bkt, filename, imageBuffer)

\* mutant: an upload error is ignored and the public URL is returned
uploadToSupabaseLenient(imageBuffer, imageId, o) ==
  Ok(getPublicUrl(uploadPath(imageId)))

uploadToSupabase(imageBuffer, imageId, o) ==
  IF ~env.supabase THEN Throw("Supabase not configured")
  ELSE IF ~o.upOk THEN Throw("upload error")
  ELSE Ok(getPublicUrl(uploadPath(imageId)))

\* the Gemini branch of generatePortrait: the output buffer, or null
tryGemini(processedBuffer, theme, o) ==
  IF ~env.gemini THEN Throw("null")
  ELSE LET ai == generateWithGemini(processedBuffer, theme, o)
       IN IF ~ai.ok THEN Throw("null")
          ELSE LET enc == sharpEncode(ai.val, "none", 2000, 2000, "inside", 90)
               IN IF enc.ok THEN enc ELSE Throw("null")

\* the Sharp-filter branch of generatePortrait
fallbackFilter(processedBuffer, theme) ==
  LET transform == IF theme \in sharpTransforms THEN theme ELSE "ghibli"
  IN sharpEncode(processedBuffer, transform, 0, 0, "none", 90)

\* the external calls one run of the Gemini branch makes, in order: the branch is
\* entered only with a client, and generateWithGemini sends one generateContent
geminiCalls(o) == IF env.gemini THEN <<"gemini">> ELSE <<>>

\* generatePortrait(imageBuffer, theme) with imageId = uuidv4():
\* [ok, imageId, imageUrl, output, via, err, calls]; calls lists, in order, the
\* generative calls, fallback transforms and uploads the run made
generatePortrait(imageId, imageBuffer, theme, o) ==
  LET pre == preprocessImage(imageBuffer)
      failed(e, via, calls) ==
        [ok |-> FALSE, imageId |-> imageId, imageUrl |-> <<>>, output |-> <<>>,
         via |-> via, err |-> e, calls |-> calls]
  IN IF ~pre.ok THEN failed("Unable to process this image format", "none", <<>>)
     ELSE LET ai == tryGemini(pre.val, theme, o)
              out == IF ai.ok THEN ai ELSE fallbackFilter(pre.val, theme)
              via == IF ai.ok THEN "ai" ELSE "filter"
              made == geminiCalls(o) \o (IF ai.ok THEN <<>> ELSE <<"filter">>)
          IN IF ~out.ok THEN failed(out.err, via, made)
             ELSE LET up == uploadToSupabase(out.val, imageId, o)
                      calls == Append(made, "upload")
                  IN IF ~up.ok THEN failed("Failed to save generated image", via, calls)
                     ELSE [ok |-> TRUE, imageId |-> imageId, imageUrl |-> up.val,
                           output |-> out.val, via |-> via, err |-> "", calls |-> calls]

\* mutant: the metadata is dropped
storeImageMetadataNone(store, imageId, metadata) == store

\* storeImageMetadata(imageId, metadata)
storeImageMetadata(store, imageId, metadata) == MapSet(store, imageId, metadata)
getImageMetadata(imageId) ==
  IF imageId \in DOMAIN imageStore THEN Ok(imageStore[imageId]) ELSE Throw("undefined")

(* ------------------- requests of POST /generate ----------------------- *)
NoTheme == ""
Images ==
  {[kind |-> "upload", length |-> 8, brand |-> "", conv |-> FALSE, dec |-> TRUE]}
  \cup {[kind |-> "upload", length |-> 16, brand |-> "JFIF", conv |-> FALSE, dec |-> d] :
          d \in BOOLEAN}
  \cup {[kind |-> "upload", length |-> 16, brand |-> "HEIC", conv |-> FALSE, dec |-> FALSE]}
  \cup {[kind |-> "upload", length |-> 16, brand |-> "mif1", conv |-> TRUE, dec |-> d] :
          d \in BOOLEAN}
RequestThemes == {validThemes[i] : i \in 1..Len(validThemes)} \cup {NoTheme, "cubism"}
Outcomes ==
  {[gem |-> g, aiDec |-> a, upOk |-> u] :
     g \in {"image", "noimage", "throws"}, a \in BOOLEAN, u \in BOOLEAN}
  \ {[gem |-> g, aiDec |-> FALSE, upOk |-> u] : g \in {"noimage", "throws"}, u \in BOOLEAN}

\* why the generative step gave no image, or "image"
genOutcome(o) ==
  IF ~env.gemini THEN "unconfigured"
  ELSE IF o.gem = "image" /\ ~o.aiDec THEN "undecodable"
  ELSE o.gem

\* storage is whether an upload, if attempted, would have succeeded
GenResponse(status, theme, r, gen, storage) ==
  [op |-> "generate", status |-> status, theme |-> theme, imageId |-> r.imageId,
   imageUrl |-> r.imageUrl, via |-> r.via, gen |-> gen, err |-> r.err,
   storage |-> storage, calls |-> r.calls]

NoResult == [ok |-> FALSE, imageId |-> <<>>, imageUrl |-> <<>>, output |-> <<>>,
             via |-> "none", err |-> "", calls |-> <<>>]

\* POST /generate, rejected before generatePortrait is called
GenerateReject(hasFile, theme) ==
  /\ ~hasFile \/ theme = NoTheme \/ ~includes(validThemes, theme)
  /\ last' = GenResponse(400, theme, NoResult, "none", FALSE)
  /\ UNCHANGED <<env, other, clock, uuids, imageStore, bucket, checkoutSessions, gateway,
                 inflight, pack, issued>>

\* POST /generate with a file and a valid theme
Generate(theme, img, o) ==
  /\ uuids < MaxUuid
  /\ includes(validThemes, theme)
  /\ LET imageId == uuidv4(uuids + 1)
         r == generatePortrait(imageId, img, theme, o)
         gen == IF r.via = "none" THEN "none" ELSE genOutcome(o)
         storage == env.supabase /\ o.upOk
     IN /\ uuids' = uuids + 1
        /\ IF r.ok
           THEN /\ bucket' = upsert(bucket, uploadPath(imageId), r.output)
                /\ imageStore' = storeImageMetadata(imageStore, imageId,
                                   [theme |-> theme, imageUrl |-> r.imageUrl])
                /\ last' = GenResponse(200, theme, r, gen, storage)
           ELSE /\ UNCHANGED <<bucket, imageStore>>
                /\ last' = GenResponse(500, theme, [r EXCEPT !.imageId = <<>>],
                                        gen, storage)
  /\ UNCHANGED <<env, other, clock, checkoutSessions, gateway, inflight, pack, issued>>

(* ========= generatePortraitPack: services/imageGenerator.js =========== *)
styles == <<"oil-painting", "studio-ghibli", "mona-lisa">>
STYLE_PROMPTS == {"oil-painting", "studio-ghibli", "mona-lisa"}
tints == {"oil-painting", "studio-ghibli", "mona-lisa"}

\* preprocessImage of the pack service: no catch, a failed re-encoding throws
packPreprocessImage(imageBuffer) ==
  LET conv == IF isHeic(imageBuffer) THEN convertHeicToJpeg(imageBuffer)
              ELSE Ok(imageBuffer)
  IN IF ~conv.ok THEN conv
     ELSE sharpEncode(conv.val, "rotate", 1500, 1500, "inside", 95)

packGenerateWithGemini(imageBuffer, style, o) ==
  IF ~env.gemini THEN Throw("Gemini API not configured")
  ELSE LET prompt == IF style \in STYLE_PROMPTS THEN style ELSE "oil-painting"
       IN CASE o.gem = "throws" -> Throw("generateContent")
            [] o.gem = "noimage" -> Throw("No image generated")
            [] OTHER -> Ok([kind |-> "ai", prompt |-> prompt, dec |-> o.aiDec])

\* mutant: a failed generateContent is sent a second time
packGeminiCallsRetry(o) ==
  IF ~env.gemini THEN <<>>
  ELSE IF o.gem = "image" THEN <<"gemini">> ELSE <<"gemini", "gemini">>

\* the external calls one call of generateWithGemini makes: one generateContent,
\* none without a client
packGeminiCalls(o) == IF env.gemini THEN <<"gemini">> ELSE <<>>

\* the try block of the pack loop
packTryGemini(processedBuffer, style, o) ==
  LET ai == packGenerateWithGemini(processedBuffer, style, o)
  IN IF ~ai.ok THEN ai
     ELSE sharpEncode(ai.val, "none", 2160, 3840, "cover", 95)

\* mutant: a generative failure is rethrown instead of being replaced
packFallbackAbort(processedBuffer, style) == Throw("generation failed")

\* the catch block of the pack loop
packFallback(processedBuffer, style) ==
  LET tint == IF style \in tints THEN style ELSE "oil-painting"
  IN sharpEncode(processedBuffer, tint, 2160, 3840, "cover", 95)

\* mutant: the session folder is left out of the path
packFilenameFlat(imageId, subfolder) == <<"valentines", "/">> \o imageId \o <<".jpg">>

packFilename(imageId, subfolder) ==
  IF subfolder # <<>>
  THEN <<"valentines", "/">> \o subfolder \o <<"/">> \o imageId \o <<".jpg">>
  ELSE <<"valentines", "/">> \o imageId \o <<".jpg">>

\* mutant: an upload error is swallowed and the public URL returned
packUploadToSupabaseLenient(imageBuffer, imageId, subfolder, o) ==
  Ok(getPublicUrl(packFilename(imageId, subfolder)))

packUploadToSupabase(imageBuffer, imageId, subfolder, o) ==
  IF ~env.supabase THEN Throw("Supabase not configured")
  ELSE IF ~o.upOk THEN Throw("upload error")
  ELSE Ok(getPublicUrl(packFilename(imageId, subfolder)))

\* mutant: the artifact id leaves the session id out
packImageIdStyleOnly(sessionId, style) == <<style>>

packImageId(sessionId, style) == sessionId \o <<"_", style>>

IdlePack == [pc |-> "idle", sessionId |-> <<>>, i |-> 0, images |-> <<>>,
             processed |-> <<>>, observer |-> FALSE, progress |-> <<>>,
             vias |-> <<>>, delays |-> 0, normalized |-> 0, calls |-> <<>>]

PackResponse(result, p, err) ==
  [op |-> "pack", result |-> result, sessionId |-> p.sessionId, images |-> p.images,
   vias |-> p.vias, progress |-> p.progress, delays |-> p.delays,
   normalized |-> p.normalized, observer |-> p.observer, err |-> err,
   calls |-> p.calls]

\* generatePortraitPack is called: sessionId = uuidv4(), then preprocessImage
PackStart(img, observer) ==
  /\ pack.pc = "idle"
  /\ uuids < MaxUuid
  /\ uuids' = uuids + 1
  /\ LET sessionId == uuidv4(uuids + 1)
         pre == packPreprocessImage(img)
         p == [IdlePack EXCEPT !.sessionId = sessionId, !.observer = observer,
                               !.normalized = 1]
     IN IF pre.ok
        THEN /\ pack' = [p EXCEPT !.pc = "style", !.processed = pre.val]
             /\ UNCHANGED last
        ELSE /\ pack' = IdlePack
             /\ last' = PackResponse("rejected", p, pre.err)
  /\ UNCHANGED <<env, other, clock, imageStore, bucket, checkoutSessions, gateway,
                 inflight, issued>>

\* mutant: the styles are taken from the end of the list
styleAtReversed(i) == styles[Len(styles) - i]

\* const style = styles[i], i counted from 0
styleAt(i) == styles[i + 1]

\* mutant: the notification carries the 0-based index
notifyZeroBased(progress, observer, i, style) ==
  IF observer
  THEN Append(progress, [current |-> i, total |-> Len(styles), style |-> style])
  ELSE progress

\* if (onProgress) onProgress({ current: i + 1, total, style })
notify(progress, observer, i, style) ==
  IF observer
  THEN Append(progress, [current |-> i + 1, total |-> Len(styles), style |-> style])
  ELSE progress

\* mutant: the loop is left after the first push
afterUploadLeave(i) == "return"

\* mutant: the pause follows every style
afterUploadAlways(i) == "delay"

\* where the loop goes after the push: the pause, or out of the loop
afterUpload(i) == IF i < Len(styles) - 1 THEN "delay" ELSE "return"

\* the head of an iteration: the progress notification, then generateWithGemini
\* is called and awaited
PackCall ==
  /\ pack.pc = "style"
  /\ pack' = [pack EXCEPT
       !.progress = notify(pack.progress, pack.observer, pack.i, styleAt(pack.i)),
       !.pc = "calling"]
  /\ UNCHANGED <<env, other, clock, uuids, imageStore, bucket, checkoutSessions, gateway,
                 inflight, issued, last>>

\* the rest of the iteration, up to the delay: the call's outcome, the fallback,
\* the upload and the push
PackStyle(o) ==
  /\ pack.pc = "calling"
  /\ LET i == pack.i
         style == styleAt(i)
         ai == packTryGemini(pack.processed, style, o)
         out == IF ai.ok THEN ai ELSE packFallback(pack.processed, style)
         via == IF ai.ok THEN "ai" ELSE "filter"
         up == IF out.ok THEN packUploadToSupabase(out.val, <<style>>, pack.sessionId, o)
               ELSE out
         imageId == packImageId(pack.sessionId, style)
         made == packGeminiCalls(o) \o (IF ai.ok THEN <<>> ELSE <<"filter">>)
                   \o (IF out.ok THEN <<"upload">> ELSE <<>>)
         p == [pack EXCEPT !.vias = Append(pack.vias, via),
                           !.calls = Append(pack.calls, made)]
     IN IF up.ok
        THEN /\ bucket' = upsert(bucket, packFilename(<<style>>, pack.sessionId), out.val)
             /\ pack' = [p EXCEPT
                  !.images = Append(pack.images,
                               [imageId |-> imageId, imageUrl |-> up.val, style |-> style]),
                  !.pc = afterUpload(i)]
             /\ UNCHANGED last
        ELSE /\ pack' = IdlePack
             /\ last' = PackResponse("rejected", p, up.err)
             /\ UNCHANGED bucket
  /\ UNCHANGED <<env, other, clock, uuids, imageStore, checkoutSessions, gateway,
                 inflight, issued>>

\* await delay(1000) resolves; the loop moves to the next style
PackDelay ==
  /\ pack.pc = "delay"
  /\ pack' = [pack EXCEPT !.pc = "style", !.i = pack.i + 1, !.delays = pack.delays + 1]
  /\ UNCHANGED <<env, other, clock, uuids, imageStore, bucket, checkoutSessions, gateway,
                 inflight, issued, last>>

\* return { sessionId, images }
PackReturn ==
  /\ pack.pc = "return"
  /\ issued' = Append(issued, [sessionId |-> pack.sessionId, images |-> pack.images])
  /\ last' = PackResponse("returned", pack, "")
  /\ pack' = IdlePack
  /\ UNCHANGED <<env, other, clock, uuids, imageStore, bucket, checkoutSessions, gateway,
                 inflight>>

(* ======== checkout, download, webhook: routes/generate.js 69-385 ====== *)
\* mutant: the client is never built
getStripeNone == FALSE

getStripe == env.stripe

JSONstringify(v) == [json |-> v]
JSONparse(text) == text.json

\* the ids a create-checkout body selects
checkoutIds(body) ==
  IF Len(body.imageIds) > 0 THEN body.imageIds
  ELSE IF body.imageId # <<>> THEN <<body.imageId>>
  ELSE <<>>

\* mutant: only the first id of the list is looked up
firstUnknownHead(ids) ==
  IF Len(ids) = 0 \/ getImageMetadata(ids[1]).ok THEN 0 ELSE 1

\* the first id of the list that has no metadata, or 0
firstUnknown(ids) ==
  IF \A k \in 1..Len(ids) : getImageMetadata(ids[k]).ok THEN 0
  ELSE CHOOSE k \in 1..Len(ids) :
         /\ ~getImageMetadata(ids[k]).ok
         /\ \A j \in 1..(k - 1) : getImageMetadata(ids[j]).ok

mockSessionId(now) == <<"mock", "_", ToString(now), "_", "bundle">>
isMockId(sessionId) == startsWith(sessionId, <<"mock", "_">>)

\* mutant: every session is stored as paid
sessionsSetPaid(table, id, ids, paid) == MapSet(table, id, [imageIds |-> ids, paid |-> TRUE])

\* checkoutSessions.set(id, { imageIds, paid })
sessionsSet(table, id, ids, paid) == MapSet(table, id, [imageIds |-> ids, paid |-> paid])

CheckoutResponse(status, sessionId, ids, mock) ==
  [op |-> "checkout", status |-> status, sessionId |-> sessionId, ids |-> ids,
   mock |-> mock]

created == Cardinality(DOMAIN checkoutSessions) + Cardinality(inflight)

\* create-checkout answered without a session: 400 or 404
CheckoutReject(body) ==
  /\ LET ids == checkoutIds(body)
     IN /\ Len(ids) = 0 \/ firstUnknown(ids) # 0
        /\ last' = CheckoutResponse(IF Len(ids) = 0 THEN 400 ELSE 404, <<>>, ids, FALSE)
  /\ UNCHANGED <<env, other, clock, uuids, imageStore, bucket, checkoutSessions, gateway,
                 inflight, pack, issued>>

\* create-checkout without Stripe: the mock session; now is what Date.now() reads
CheckoutMock(body, now) ==
  /\ ~getStripe
  /\ now >= clock
  /\ clock' = now
  /\ LET ids == checkoutIds(body)
         id == mockSessionId(now)
     IN /\ Len(ids) # 0 /\ firstUnknown(ids) = 0
        /\ checkoutSessions' = sessionsSet(checkoutSessions, id, ids, TRUE)
        /\ last' = CheckoutResponse(200, id, ids, TRUE)
  /\ UNCHANGED <<env, other, uuids, imageStore, bucket, gateway, inflight, pack, issued>>

\* create-checkout with Stripe, up to the await: sessions.create is sent, and
\* either throws (500) or the gateway now holds the new, unpaid session
CheckoutBegin(body, createOk) ==
  /\ created < MaxCheckout
  /\ getStripe
  /\ LET ids == checkoutIds(body)
         id == stripeId(Cardinality(DOMAIN gateway) + 1)
     IN /\ Len(ids) # 0 /\ firstUnknown(ids) = 0
        /\ IF createOk
           THEN /\ gateway' = MapSet(gateway, id,
                                [payment_status |-> "unpaid",
                                 metadata |-> [imageIds |-> JSONstringify(ids)]])
                /\ inflight' = inflight \cup {[id |-> id, ids |-> ids]}
                /\ UNCHANGED last
           ELSE /\ last' = CheckoutResponse(500, <<>>, ids, FALSE)
                /\ UNCHANGED <<gateway, inflight>>
  /\ UNCHANGED <<env, other, clock, uuids, imageStore, bucket, checkoutSessions, pack, issued>>

\* create-checkout after the await: the table entry and the response
CheckoutFinish(req) ==
  /\ req \in inflight
  /\ inflight' = inflight \ {req}
  /\ checkoutSessions' = sessionsSet(checkoutSessions, req.id, req.ids, FALSE)
  /\ last' = CheckoutResponse(200, req.id, req.ids, FALSE)
  /\ UNCHANGED <<env, other, clock, uuids, imageStore, bucket, gateway, pack, issued>>

\* the customer pays on the checkout page whose URL the response gave
urlKnown(id) == id \in DOMAIN checkoutSessions
GatewayPay(id) ==
  /\ id \in DOMAIN gateway
  /\ urlKnown(id)
  /\ gateway[id].payment_status = "unpaid"
  /\ gateway' = [gateway EXCEPT ![id].payment_status = "paid"]
  /\ UNCHANGED <<env, other, clock, uuids, imageStore, bucket, checkoutSessions, inflight,
                 pack, issued, last>>

(* ------------------------------ webhook ------------------------------- *)
\* mutant: the event flips the flag instead of setting it
webhookApplyToggle(table, type, id) ==
  IF type = "checkout.session.completed" /\ id \in DOMAIN table
  THEN [table EXCEPT ![id].paid = ~table[id].paid]
  ELSE table

\* mutant: the event is acknowledged and nothing is recorded
webhookApplyNone(table, type, id) == table

\* the switch on event.type
webhookApply(table, type, id) ==
  IF type = "checkout.session.completed" /\ id \in DOMAIN table
  THEN [table EXCEPT ![id].paid = TRUE]
  ELSE table

\* mutant: the signature is not verified
webhookStatusUnverified(sigOk) ==
  IF ~getStripe THEN 500
  ELSE IF ~env.whsec THEN 400
  ELSE 200

\* the status the handler answers with
webhookStatus(sigOk) ==
  IF ~getStripe THEN 500
  ELSE IF ~env.whsec THEN 400
  ELSE IF ~sigOk THEN 400
  ELSE 200

\* Stripe signs "checkout.session.completed" only for a session that was paid
signable(type, id) ==
  type = "checkout.session.completed" =>
    (id \in DOMAIN gateway /\ gateway[id].payment_status = "paid")

EventTypes == {"checkout.session.completed", "payment_intent.created"}
GhostSessions == {<<"cs", "_", "ghost">>, <<"mock", "_", "ghost">>}
SessionIds == DOMAIN checkoutSessions \cup DOMAIN gateway \cup GhostSessions

Webhook(sigOk, type, id) ==
  /\ sigOk => signable(type, id)
  /\ LET status == webhookStatus(sigOk)
     IN /\ checkoutSessions' = IF status = 200 THEN webhookApply(checkoutSessions, type, id)
                               ELSE checkoutSessions
        /\ last' = [op |-> "webhook", status |-> status, sigOk |-> sigOk,
                    type |-> type, sessionId |-> id]
  /\ UNCHANGED <<env, other, clock, uuids, imageStore, bucket, gateway, inflight, pack, issued>>

(* ------------------------------ download ------------------------------ *)
themeNames(theme) ==
  CASE theme = "oil-painting" -> "OilPainting"
    [] theme = "studio-ghibli" -> "StudioGhibli"
    [] theme = "mona-lisa" -> "Renaissance"
    [] theme = "renaissance" -> "Renaissance"
    [] theme = "vangogh" -> "VanGogh"
    [] theme = "ghibli" -> "StudioGhibli"
    [] theme = "disney" -> "DisneyPixar"
    [] theme = "watercolor" -> "Watercolor"
    [] OTHER -> ""

\* mutant: every entry gets the generic label
entryNameGeneric(theme) ==
  <<"Valentines imagegen.studio", "/", "Valentine-Portrait-", "Portrait", ".jpg">>

\* mutant: a style missing from the table gets no generic label
entryNameNoLabel(theme) ==
  <<"Valentines imagegen.studio", "/", "Valentine-Portrait-", themeNames(theme), ".jpg">>

entryName(theme) ==
  LET themeName == IF themeNames(theme) # "" THEN themeNames(theme) ELSE "Portrait"
  IN <<"Valentines imagegen.studio", "/", "Valentine-Portrait-", themeName, ".jpg">>

\* stripe.checkout.sessions.retrieve
retrieve(sessionId) ==
  IF sessionId \in DOMAIN gateway THEN Ok(gateway[sessionId]) ELSE Throw("resource_missing")

\* mutant: the payment status of the retrieved session is not looked at
downloadGateUnchecked(sessionId) ==
  LET stop(st, pay) == [status |-> st, imageIds |-> <<>>, payment |-> pay]
      go(ids, pay) == IF Len(ids) = 0 THEN stop(404, pay)
                      ELSE [status |-> 0, imageIds |-> ids, payment |-> pay]
  IN IF isMockId(sessionId)
     THEN IF sessionId \notin DOMAIN checkoutSessions THEN stop(404, "mock")
          ELSE go(checkoutSessions[sessionId].imageIds, "mock")
     ELSE IF ~getStripe THEN stop(500, "none")
     ELSE LET session == IF sessionId \in DOMAIN gateway THEN Ok(gateway[sessionId])
                         ELSE Throw("resource_missing")
          IN IF ~session.ok THEN stop(500, "none")
             ELSE go(JSONparse(session.val.metadata.imageIds),
                     session.val.payment_status)

\* mutant: a gateway session is judged by the paid flag of the local table
downloadGateLocal(sessionId) ==
  LET stop(st, pay) == [status |-> st, imageIds |-> <<>>, payment |-> pay]
      go(ids, pay) == IF Len(ids) = 0 THEN stop(404, pay)
                      ELSE [status |-> 0, imageIds |-> ids, payment |-> pay]
  IN IF sessionId \notin DOMAIN checkoutSessions THEN stop(404, "none")
     ELSE IF ~checkoutSessions[sessionId].paid THEN stop(402, "unpaid")
     ELSE go(checkoutSessions[sessionId].imageIds, "paid")

\* what the download handler decides before it fetches anything:
\* [status, imageIds, payment], status 0 meaning "go on"
downloadGate(sessionId) ==
  LET stop(st, pay) == [status |-> st, imageIds |-> <<>>, payment |-> pay]
      go(ids, pay) == IF Len(ids) = 0 THEN stop(404, pay)
                      ELSE [status |-> 0, imageIds |-> ids, payment |-> pay]
  IN IF isMockId(sessionId)
     THEN IF sessionId \notin DOMAIN checkoutSessions THEN stop(404, "mock")
          ELSE go(checkoutSessions[sessionId].imageIds, "mock")
     ELSE IF ~getStripe THEN stop(500, "none")
     ELSE LET session == retrieve(sessionId)
          IN IF ~session.ok THEN stop(500, "none")
             ELSE IF session.val.payment_status # "paid"
                  THEN stop(402, session.val.payment_status)
             ELSE go(JSONparse(session.val.metadata.imageIds), "paid")

urlPath(url) == SubSeq(url, 3, Len(url))

\* mutant: a failed fetch yields an empty buffer instead of throwing
fetchImageLenient(id, netOk) ==
  LET metadata == getImageMetadata(id)
  IN IF ~metadata.ok \/ metadata.val.imageUrl = <<>> \/ ~netOk
        \/ urlPath(metadata.val.imageUrl) \notin DOMAIN bucket
     THEN Ok([buffer |-> <<>>, theme |-> ""])
     ELSE Ok([buffer |-> bucket[urlPath(metadata.val.imageUrl)],
              theme |-> metadata.val.theme])

\* fetchImage(id); netOk is whether the HTTP fetch of the URL succeeds
fetchImage(id, netOk) ==
  LET metadata == getImageMetadata(id)
  IN IF ~metadata.ok \/ metadata.val.imageUrl = <<>> THEN Throw("No URL for image")
     ELSE IF ~netOk \/ urlPath(metadata.val.imageUrl) \notin DOMAIN bucket
          THEN Throw("Failed to fetch image")
     ELSE Ok([buffer |-> bucket[urlPath(metadata.val.imageUrl)],
              theme |-> metadata.val.theme])

\* mutant: the first failed fetch ends the loop
RECURSIVE archiveEntriesAbort(_, _, _)
archiveEntriesAbort(imageIds, net, k) ==
  IF k > Len(imageIds) THEN <<>>
  ELSE LET f == IF net[k] /\ imageIds[k] \in DOMAIN imageStore
                THEN Ok(imageStore[imageIds[k]]) ELSE Throw("fetch")
       IN IF f.ok
          THEN <<[name |-> <<f.val.theme>>, id |-> imageIds[k], buffer |-> <<>>]>>
               \o archiveEntriesAbort(imageIds, net, k + 1)
          ELSE <<>>

\* the archive loop over imageIds[k..]: the entries appended
RECURSIVE archiveEntries(_, _, _)
archiveEntries(imageIds, net, k) ==
  IF k > Len(imageIds) THEN <<>>
  ELSE LET f == fetchImage(imageIds[k], net[k])
       IN (IF f.ok THEN <<[name |-> entryName(f.val.theme), id |-> imageIds[k],
                           buffer |-> f.val.buffer]>>
           ELSE <<>>) \o archiveEntries(imageIds, net, k + 1)

DownloadResponse(status, sessionId, g, net, type, sent, finalized) ==
  [op |-> "download", status |-> status, sessionId |-> sessionId,
   payment |-> g.payment, imageIds |-> g.imageIds, net |-> net,
   contentType |-> type, sent |-> sent, finalized |-> finalized]

\* what GET /download/:sessionId answers; net[k] is the outcome of the k-th fetch
downloadOutcome(sessionId, net) ==
  LET g == downloadGate(sessionId)
      n == Len(g.imageIds)
  IN IF g.status # 0
     THEN DownloadResponse(g.status, sessionId, g, net, "application/json", <<>>, FALSE)
     ELSE IF n = 1
     THEN LET f == fetchImage(g.imageIds[1], net[1])
          IN IF f.ok
             THEN DownloadResponse(200, sessionId, g, net, "image/jpeg",
                    <<[name |-> <<"valentine-portrait.jpg">>, id |-> g.imageIds[1],
                       buffer |-> f.val.buffer]>>, FALSE)
             ELSE DownloadResponse(500, sessionId, g, net, "application/json",
                                   <<>>, FALSE)
     ELSE DownloadResponse(200, sessionId, g, net, "application/zip",
                           archiveEntries(g.imageIds, net, 1), TRUE)

\* GET /download/:sessionId
Download(sessionId, net) ==
  /\ Len(net) = Len(downloadGate(sessionId).imageIds)
  /\ last' = downloadOutcome(sessionId, net)
  /\ UNCHANGED <<env, other, clock, uuids, imageStore, bucket, checkoutSessions, gateway,
                 inflight, pack, issued>>

(* ------------------------------ images -------------------------------- *)
SUPABASE_PUBLIC_URL == "https://vvftrcuiettbrcvivulv.supabase.co/storage/v1/object/public/images"

\* the position of the last '_' of an id, or 0
lastUnderscore(imageId) ==
  IF \E k \in 1..Len(imageId) : imageId[k] = "_"
  THEN CHOOSE k \in 1..Len(imageId) :
         imageId[k] = "_" /\ \A j \in (k + 1)..Len(imageId) : imageId[j] # "_"
  ELSE 0

\* mutant: the URL is built as for a single portrait, valentines/{imageId}.jpg
constructImageUrlFlat(imageId) ==
  IF lastUnderscore(imageId) = 0 THEN <<>>
  ELSE <<SUPABASE_PUBLIC_URL, "/", "valentines", "/">> \o imageId \o <<".jpg">>

\* constructImageUrl(imageId): null (<<>>) for an id without '_'
constructImageUrl(imageId) ==
  LET k == lastUnderscore(imageId)
  IN IF k = 0 THEN <<>>
     ELSE <<SUPABASE_PUBLIC_URL, "/", "valentines", "/">> \o SubSeq(imageId, 1, k - 1)
          \o <<"/">> \o SubSeq(imageId, k + 1, Len(imageId)) \o <<".jpg">>

\* extractStyle(imageId): the part after the last '_'
extractStyle(imageId) == SubSeq(imageId, lastUnderscore(imageId) + 1, Len(imageId))

\* one element of the images list, before the filter
imageEntry(id) ==
  LET metadata == getImageMetadata(id)
  IN [imageId |-> id,
      imageUrl |-> IF metadata.ok /\ metadata.val.imageUrl # <<>>
                   THEN metadata.val.imageUrl ELSE constructImageUrl(id),
      style |-> IF metadata.ok /\ metadata.val.theme # ""
                THEN <<metadata.val.theme>> ELSE extractStyle(id)]

\* mutant: the list is not filtered
imagesOfUnfiltered(imageIds) == [k \in 1..Len(imageIds) |-> imageEntry(imageIds[k])]

\* imageIds.map(...).filter(img => img.imageUrl)
imagesOf(imageIds) ==
  SelectSeq([k \in 1..Len(imageIds) |-> imageEntry(imageIds[k])],
            LAMBDA img : img.imageUrl # <<>>)

ImagesResponse(status, sessionId, payment, images) ==
  [op |-> "images", status |-> status, sessionId |-> sessionId, payment |-> payment,
   images |-> images]

\* what GET /images/:sessionId answers
imagesOutcome(sessionId) ==
  IF isMockId(sessionId)
  THEN IF sessionId \notin DOMAIN checkoutSessions
       THEN ImagesResponse(404, sessionId, "mock", <<>>)
       ELSE ImagesResponse(200, sessionId, "mock",
                           imagesOf(checkoutSessions[sessionId].imageIds))
  ELSE IF ~getStripe THEN ImagesResponse(500, sessionId, "none", <<>>)
  ELSE LET session == retrieve(sessionId)
       IN IF ~session.ok THEN ImagesResponse(500, sessionId, "none", <<>>)
          ELSE IF session.val.payment_status # "paid"
               THEN ImagesResponse(402, sessionId, session.val.payment_status, <<>>)
          ELSE ImagesResponse(200, sessionId, "paid",
                              imagesOf(JSONparse(session.val.metadata.imageIds)))

\* GET /images/:sessionId
ImagesList(sessionId) ==
  /\ last' = imagesOutcome(sessionId)
  /\ UNCHANGED <<env, other, clock, uuids, imageStore, bucket, checkoutSessions, gateway,
                 inflight, pack, issued>>

(* --------------------------- request inputs --------------------------- *)
GhostImage == <<"ghost">>
CandidateIds == DOMAIN imageStore \cup {GhostImage}
\* the stored ids in the order they were issued, then an id never issued
IssuedIds == SelectSeq([k \in 1..uuids |-> uuidv4(k)], LAMBDA id : id \in DOMAIN imageStore)
IdLists ==
  LET master == IssuedIds \o <<GhostImage>>
  IN {SubSeq(master, a, b) : a \in 1..Len(master), b \in 1..Len(master)}
     \cup {<<GhostImage, master[1]>>}
\* bodies with imageId alone, with imageIds alone, with neither, and with both
Bodies ==
  {[imageId |-> a, imageIds |-> <<>>, bundle |-> FALSE] : a \in {<<>>} \cup CandidateIds}
  \cup {[imageId |-> a, imageIds |-> l, bundle |-> TRUE] :
          a \in {<<>>, GhostImage},
          l \in {x \in IdLists : Len(x) >= 1 /\ Len(x) <= MaxIds}}
NetOutcomes == UNION {[1..k -> BOOLEAN] : k \in 0..MaxIds}

(* ------------------------------ Init ---------------------------------- *)
Init ==
  /\ env \in [stripe : BOOLEAN, whsec : BOOLEAN, gemini : BOOLEAN, supabase : BOOLEAN]
  /\ clock = 0
  /\ uuids = 0
  /\ imageStore = EmptyMap
  /\ bucket = EmptyMap
  /\ checkoutSessions = EmptyMap
  /\ gateway = EmptyMap
  /\ inflight = {}
  /\ pack = IdlePack
  /\ other = IdlePack
  /\ issued = <<>>
  /\ last = [op |-> "none", status |-> 0]

\* POST /generate alone
NextOne ==
  \/ \E h \in BOOLEAN, t \in RequestThemes : GenerateReject(h, t)
  \/ \E t \in RequestThemes, img \in Images, o \in Outcomes : Generate(t, img, o)

InitGen == Init /\ ~env.stripe /\ ~env.whsec
SpecOne == InitGen /\ [][NextOne]_vars

\* generatePortraitPack alone
NextPack ==
  \/ \E img \in Images, ob \in BOOLEAN : PackStart(img, ob)
  \/ PackCall
  \/ \E o \in Outcomes : PackStyle(o)
  \/ PackDelay
  \/ PackReturn

SpecPack == InitGen /\ [][NextPack]_vars

\* every awaited call of a started pack eventually settles: the generative call
\* and the upload, the pause timer, the return to the caller
SpecPackFair ==
  /\ SpecPack
  /\ WF_vars(PackCall)
  /\ WF_vars(\E o \in Outcomes : PackStyle(o))
  /\ WF_vars(PackDelay)
  /\ WF_vars(PackReturn)

\* the paid-checkout flow, with POST /generate filling the registry
PayThemes == {"renaissance"}
PayImages == {[kind |-> "upload", length |-> 16, brand |-> "JFIF", conv |-> FALSE, dec |-> TRUE]}
PayOutcomes == {[gem |-> "throws", aiDec |-> FALSE, upOk |-> TRUE]}
NextPay ==
  \/ \E t \in PayThemes, img \in PayImages, o \in PayOutcomes : Generate(t, img, o)
  \/ \E body \in Bodies : CheckoutReject(body)
  \/ \E body \in Bodies, now \in 0..MaxClock : CheckoutMock(body, now)
  \/ \E body \in Bodies, ok \in BOOLEAN : CheckoutBegin(body, ok)
  \/ \E req \in inflight : CheckoutFinish(req)
  \/ \E id \in DOMAIN gateway : GatewayPay(id)
  \/ \E sig \in BOOLEAN, ty \in EventTypes, id \in SessionIds : Webhook(sig, ty, id)
  \/ \E id \in SessionIds, net \in NetOutcomes : Download(id, net)
  \/ \E id \in SessionIds : ImagesList(id)

InitPay == Init /\ ~env.gemini /\ env.supabase
SpecPay == InitPay /\ [][NextPay]_vars

\* downloads of paid sessions whose artifacts have styles inside and outside themeNames
ZipThemes == {"renaissance", "anime"}
NextZip ==
  \/ \E t \in ZipThemes, img \in PayImages, o \in PayOutcomes : Generate(t, img, o)
  \/ \E body \in Bodies, now \in 0..MaxClock : CheckoutMock(body, now)
  \/ \E body \in Bodies : CheckoutBegin(body, TRUE)
  \/ \E req \in inflight : CheckoutFinish(req)
  \/ \E id \in DOMAIN gateway : GatewayPay(id)
  \/ \E id \in DOMAIN checkoutSessions, net \in NetOutcomes : Download(id, net)

InitZip == InitPay /\ ~env.whsec
SpecZip == InitZip /\ [][NextZip]_vars

\* mock sessions over artifacts of every style POST /generate accepts, downloaded
NameThemes == {validThemes[i] : i \in 1..Len(validThemes)}
NextNames ==
  \/ \E t \in NameThemes, img \in PayImages, o \in PayOutcomes : Generate(t, img, o)
  \/ \E body \in Bodies, now \in 0..MaxClock : CheckoutMock(body, now)
  \/ \E id \in DOMAIN checkoutSessions, net \in NetOutcomes : Download(id, net)

InitNames == InitPay /\ ~env.stripe /\ ~env.whsec
SpecNames == InitNames /\ [][NextNames]_vars

(* ------ a second pack running while the first one is suspended ------- *)
\* the steps of generatePortraitPack for the second run; its sessionId, loop
\* index and images are the locals of its own call
OtherStart(img) ==
  /\ other.pc = "idle"
  /\ uuids < MaxUuid
  /\ uuids' = uuids + 1
  /\ LET sessionId == uuidv4(uuids + 1)
         pre == packPreprocessImage(img)
         p == [IdlePack EXCEPT !.sessionId = sessionId, !.normalized = 1]
     IN IF pre.ok
        THEN /\ other' = [p EXCEPT !.pc = "style", !.processed = pre.val]
             /\ UNCHANGED last
        ELSE /\ other' = IdlePack
             /\ last' = PackResponse("rejected", p, pre.err)
  /\ UNCHANGED <<env, pack, clock, imageStore, bucket, checkoutSessions, gateway,
                 inflight, issued>>

OtherCall ==
  /\ other.pc = "style"
  /\ other' = [other EXCEPT
       !.progress = notify(other.progress, other.observer, other.i, styleAt(other.i)),
       !.pc = "calling"]
  /\ UNCHANGED <<env, pack, clock, uuids, imageStore, bucket, checkoutSessions,
                 gateway, inflight, issued, last>>

OtherStyle(o) ==
  /\ other.pc = "calling"
  /\ LET i == other.i
         style == styleAt(i)
         ai == packTryGemini(other.processed, style, o)
         out == IF ai.ok THEN ai ELSE packFallback(other.processed, style)
         via == IF ai.ok THEN "ai" ELSE "filter"
         up == IF out.ok THEN packUploadToSupabase(out.val, <<style>>, other.sessionId, o)
               ELSE out
         imageId == packImageId(other.sessionId, style)
         made == packGeminiCalls(o) \o (IF ai.ok THEN <<>> ELSE <<"filter">>)
                   \o (IF out.ok THEN <<"upload">> ELSE <<>>)
         p == [other EXCEPT !.vias = Append(other.vias, via),
                            !.calls = Append(other.calls, made)]
     IN IF up.ok
        THEN /\ bucket' = upsert(bucket, packFilename(<<style>>, other.sessionId), out.val)
             /\ other' = [p EXCEPT
                  !.images = Append(other.images,
                               [imageId |-> imageId, imageUrl |-> up.val, style |-> style]),
                  !.pc = afterUpload(i)]
             /\ UNCHANGED last
        ELSE /\ other' = IdlePack
             /\ last' = PackResponse("rejected", p, up.err)
             /\ UNCHANGED bucket
  /\ UNCHANGED <<env, pack, clock, uuids, imageStore, checkoutSessions, gateway,
                 inflight, issued>>

OtherDelay ==
  /\ other.pc = "delay"
  /\ other' = [other EXCEPT !.pc = "style", !.i = other.i + 1,
                            !.delays = other.delays + 1]
  /\ UNCHANGED <<env, pack, clock, uuids, imageStore, bucket, checkoutSessions,
                 gateway, inflight, issued, last>>

OtherReturn ==
  /\ other.pc = "return"
  /\ issued' = Append(issued, [sessionId |-> other.sessionId, images |-> other.images])
  /\ last' = PackResponse("returned", other, "")
  /\ other' = IdlePack
  /\ UNCHANGED <<env, pack, clock, uuids, imageStore, bucket, checkoutSessions,
                 gateway, inflight>>

\* the second pack's generative calls give an image and its uploads succeed; the
\* first pack's calls throw (PayOutcomes), so the two store different objects
ConcOutcomes == {[gem |-> "image", aiDec |-> TRUE, upOk |-> TRUE]}

\* the first pack's own steps
PackSteps ==
  \/ \E img \in PayImages : PackStart(img, FALSE)
  \/ PackCall
  \/ \E o \in PayOutcomes : PackStyle(o)
  \/ PackDelay
  \/ PackReturn

\* the requests served next to it: a second pack, POST /generate, create-checkout,
\* webhook, download
ElseSteps ==
  \/ \E img \in PayImages : OtherStart(img)
  \/ OtherCall
  \/ \E o \in ConcOutcomes : OtherStyle(o)
  \/ OtherDelay
  \/ OtherReturn
  \/ \E t \in PayThemes, img \in PayImages, o \in PayOutcomes : Generate(t, img, o)
  \/ \E body \in Bodies : CheckoutReject(body)
  \/ \E body \in Bodies, now \in 0..MaxClock : CheckoutMock(body, now)
  \/ \E sig \in BOOLEAN, ty \in EventTypes, id \in SessionIds : Webhook(sig, ty, id)
  \/ \E id \in SessionIds, net \in NetOutcomes : Download(id, net)

NextConc == PackSteps \/ ElseSteps
InitConc == InitGen /\ env.gemini /\ env.supabase
SpecConc == InitConc /\ [][NextConc]_vars

(* ---- create-checkout and webhook, the gateway free to settle early ---- *)
\* the gateway marks a session it holds as paid, whether or not create-checkout
\* has got past its await of sessions.create
GatewayComplete(id) ==
  /\ id \in DOMAIN gateway
  /\ gateway[id].payment_status = "unpaid"
  /\ gateway' = [gateway EXCEPT ![id].payment_status = "paid"]
  /\ UNCHANGED <<env, other, clock, uuids, imageStore, bucket, checkoutSessions, inflight,
                 pack, issued, last>>

NextRace ==
  \/ \E t \in PayThemes, img \in PayImages, o \in PayOutcomes : Generate(t, img, o)
  \/ \E body \in Bodies, ok \in BOOLEAN : CheckoutBegin(body, ok)
  \/ \E req \in inflight : CheckoutFinish(req)
  \/ \E id \in DOMAIN gateway : GatewayComplete(id)
  \/ \E sig \in BOOLEAN, ty \in EventTypes, id \in SessionIds : Webhook(sig, ty, id)

InitRace == InitPay /\ env.stripe /\ env.whsec
SpecRace == InitRace /\ [][NextRace]_vars

(* ------- create-checkout of routes/payment.js, without Stripe --------- *)
\* const ids = bundle && imageIds ? imageIds : (imageId ? [imageId] : []);
\* an absent imageIds is the empty list of the body record
paymentIds(body) ==
  IF body.bundle /\ body.imageIds # <<>> THEN body.imageIds
  ELSE IF body.imageId # <<>> THEN <<body.imageId>>
  ELSE <<>>

\* payment.js create-checkout answered without a session: 400 or 404
PaymentCheckoutReject(body) ==
  /\ LET ids == paymentIds(body)
     IN /\ Len(ids) = 0 \/ firstUnknown(ids) # 0
        /\ last' = CheckoutResponse(IF Len(ids) = 0 THEN 400 ELSE 404, <<>>, ids, FALSE)
  /\ UNCHANGED <<env, other, clock, uuids, imageStore, bucket, checkoutSessions, gateway,
                 inflight, pack, issued>>

\* payment.js create-checkout without Stripe: the mock session
PaymentCheckoutMock(body, now) ==
  /\ ~getStripe
  /\ now >= clock
  /\ clock' = now
  /\ LET ids == paymentIds(body)
         id == mockSessionId(now)
     IN /\ Len(ids) # 0 /\ firstUnknown(ids) = 0
        /\ checkoutSessions' = sessionsSet(checkoutSessions, id, ids, TRUE)
        /\ last' = CheckoutResponse(200, id, ids, TRUE)
  /\ UNCHANGED <<env, other, uuids, imageStore, bucket, gateway, inflight, pack, issued>>

\* bodies with and without the bundle field
BindBodies == Bodies \cup {[b EXCEPT !.bundle = ~b.bundle] : b \in Bodies}

\* create-checkout of both routers over a filled registry
NextBind ==
  \/ \E t \in ZipThemes, img \in PayImages, o \in PayOutcomes : Generate(t, img, o)
  \/ \E body \in BindBodies : CheckoutReject(body)
  \/ \E body \in BindBodies, now \in 0..MaxClock : CheckoutMock(body, now)
  \/ \E body \in BindBodies : PaymentCheckoutReject(body)
  \/ \E body \in BindBodies, now \in 0..MaxClock : PaymentCheckoutMock(body, now)

InitBind == InitPay /\ ~env.stripe /\ ~env.whsec
SpecBind == InitBind /\ [][NextBind]_vars

\* both generation services side by side: single portraits and packs
CallThemes == {"watercolor"}
CallImages ==
  {[kind |-> "upload", length |-> 16, brand |-> "JFIF", conv |-> FALSE, dec |-> TRUE],
   [kind |-> "upload", length |-> 16, brand |-> "mif1", conv |-> TRUE, dec |-> FALSE]}
NextCalls ==
  \/ \E t \in CallThemes, img \in CallImages, o \in Outcomes : Generate(t, img, o)
  \/ \E img \in CallImages : PackStart(img, FALSE)
  \/ PackCall
  \/ \E o \in Outcomes : PackStyle(o)
  \/ PackDelay
  \/ PackReturn
SpecCalls == InitGen /\ [][NextCalls]_vars


(* ------------- uploadToSupabase called on its own --------------------- *)
\* mutant: the upload is sent without upsert
uploadOptionsNoUpsert == [contentType |-> "image/jpeg", upsert |-> FALSE]

\* the options both services pass to storage.upload
uploadOptions == [contentType |-> "image/jpeg", upsert |-> TRUE]

\* sb.storage.from(BUCKET_NAME).upload(filename, imageBuffer, options): the error
\* it reports ("" for none) and the bucket afterwards
storageUpload(bkt, filename, imageBuffer, options, o) ==
  IF ~o.upOk THEN [error |-> "upload error", bucket |-> bkt]
  ELSE IF filename \in DOMAIN bkt /\ ~options.upsert
       THEN [error |-> "The resource already exists", bucket |-> bkt]
  ELSE [error |-> "", bucket |-> upsert(bkt, filename, imageBuffer)]

UploadResponse(ok, filename, imageBuffer, url, o) ==
  [op |-> "upload", ok |-> ok, path |-> filename, buffer |-> imageBuffer, url |-> url,
   upOk |-> o.upOk, existed |-> filename \in DOMAIN bucket,
   replaced |-> filename \in DOMAIN bucket /\ bucket[filename] # imageBuffer]

\* uploadToSupabase(imageBuffer, imageId, subfolder); subfolder <<>> is the call
\* without one, which is also the older service's uploadToSupabase
Upload(imageBuffer, imageId, subfolder, o) ==
  /\ LET filename == packFilename(imageId, subfolder)
         res == storageUpload(bucket, filename, imageBuffer, uploadOptions, o)
     IN IF env.supabase /\ res.error = ""
        THEN /\ bucket' = res.bucket
             /\ last' = UploadResponse(TRUE, filename, imageBuffer, getPublicUrl(filename), o)
        ELSE /\ UNCHANGED bucket
             /\ last' = UploadResponse(FALSE, filename, imageBuffer, <<>>, o)
  /\ UNCHANGED <<env, other, clock, uuids, imageStore, checkoutSessions, gateway, inflight,
                 pack, issued>>

UploadBuffers == {[kind |-> "bytes", n |-> k, dec |-> TRUE] : k \in 1..2}
UploadIds == {uuidv4(1), <<"oil-painting">>}
UploadFolders == {<<>>, uuidv4(1)}
UploadOutcomes == {[gem |-> "throws", aiDec |-> FALSE, upOk |-> u] : u \in BOOLEAN}
NextUpload ==
  \/ \E t \in PayThemes, img \in PayImages, o \in PayOutcomes : Generate(t, img, o)
  \/ \E b \in UploadBuffers, id \in UploadIds, f \in UploadFolders, o \in UploadOutcomes :
       Upload(b, id, f, o)

InitUpload == InitGen /\ ~env.gemini
SpecUpload == InitUpload /\ [][NextUpload]_vars


(* -------- GET /images/:sessionId after the process restarted ---------- *)
\* ids a gateway session created before the restart may carry: a registry id, two
\* ids of the {uuid}_{style} form, and an id without '_'
RestartIds ==
  {uuidv4(1), <<"uuid-2", "_", "oil-painting">>, <<"a", "_", "b", "_", "ghibli">>,
   <<"plain">>}
RestartLists == UNION {[1..n -> RestartIds] : n \in 0..(MaxIds + 1)}
\* the registry: empty after a restart, or refilled by a POST /generate
RestartRegistry ==
  {EmptyMap,
   storeImageMetadata(EmptyMap, uuidv4(1),
     [theme |-> "renaissance", imageUrl |-> getPublicUrl(uploadPath(uuidv4(1)))])}

InitImages ==
  /\ env \in [stripe : BOOLEAN, whsec : {FALSE}, gemini : {FALSE}, supabase : {TRUE}]
  /\ clock = 0
  /\ imageStore \in RestartRegistry
  /\ uuids = Cardinality(DOMAIN imageStore)
  /\ bucket = EmptyMap
  /\ \E l \in RestartLists, st \in {"paid", "unpaid"} :
       /\ gateway = MapSet(EmptyMap, stripeId(1),
                      [payment_status |-> st, metadata |-> [imageIds |-> JSONstringify(l)]])
       /\ checkoutSessions =
            IF ~env.stripe /\ l # <<>> /\ \A k \in 1..Len(l) : l[k] \in DOMAIN imageStore
            THEN sessionsSet(EmptyMap, mockSessionId(0), l, TRUE)
            ELSE EmptyMap
  /\ inflight = {}
  /\ pack = IdlePack
  /\ other = IdlePack
  /\ issued = <<>>
  /\ last = [op |-> "none", status |-> 0]

NextImages == \E id \in SessionIds : ImagesList(id)
SpecImages == InitImages /\ [][NextImages]_vars

(* -------- GET /download/:sessionId after the process restarted -------- *)
\* storage outlives the process: the object of the first portrait is still there
FetchBucket ==
  upsert(EmptyMap, uploadPath(uuidv4(1)),
         sharpEncode([kind |-> "sharp", dec |-> TRUE], "renaissance", 0, 0, "none", 90).val)

InitFetch ==
  /\ env \in [stripe : BOOLEAN, whsec : {FALSE}, gemini : {FALSE}, supabase : {TRUE}]
  /\ clock = 0
  /\ imageStore \in RestartRegistry
  /\ uuids = Cardinality(DOMAIN imageStore)
  /\ bucket = FetchBucket
  /\ \E l \in RestartLists, st \in {"paid", "unpaid"} :
       /\ gateway = MapSet(EmptyMap, stripeId(1),
                      [payment_status |-> st, metadata |-> [imageIds |-> JSONstringify(l)]])
       /\ checkoutSessions =
            IF ~env.stripe /\ l # <<>> /\ \A k \in 1..Len(l) : l[k] \in DOMAIN imageStore
            THEN sessionsSet(EmptyMap, mockSessionId(0), l, TRUE)
            ELSE EmptyMap
  /\ inflight = {}
  /\ pack = IdlePack
  /\ other = IdlePack
  /\ issued = <<>>
  /\ last = [op |-> "none", status |-> 0]

NextFetch == \E id \in SessionIds, net \in NetOutcomes : Download(id, net)
SpecFetch == InitFetch /\ [][NextFetch]_vars

(* ============================== claims ================================ *)
GenFailures == {"unconfigured", "throws", "noimage"}

\* C1: for every supported style, when the generative capability is unconfigured,
\* throws or returns no image part, and storage works, POST /generate answers 200
\* with an image URL whose object came from that style's fallback transform; a pack
\* is never rejected because of a generative failure.
C1_FallbackTotality ==
  /\ (last.op = "generate" /\ last.gen \in GenFailures /\ last.storage)
       => /\ last.status = 200
          /\ last.imageUrl # <<>>
          /\ last.via = "filter"
          /\ bucket[uploadPath(last.imageId)].chain = last.theme
  /\ (last.op = "pack" /\ last.result = "rejected")
       => last.err \in {"heic-convert", "sharp", "Supabase not configured", "upload error"}
  /\ \A k \in 1..Len(pack.images) :
       pack.vias[k] = "filter"
         => bucket[packFilename(<<styles[k]>>, pack.sessionId)].chain = styles[k]

\* C2: a download of a gateway-backed session sends artifact bytes only when the
\* gateway reports the session paid; while it is unpaid the answer is 402 and nothing
\* is sent. A download of an existing mock session is never refused (no 402, no 404)
\* and sends every artifact whose fetch succeeds.
C2_DownloadGated ==
  last.op = "download" =>
    LET id == last.sessionId
    IN /\ (~isMockId(id) /\ last.sent # <<>>)
            => (id \in DOMAIN gateway /\ gateway[id].payment_status = "paid")
       /\ (~isMockId(id) /\ id \in DOMAIN gateway /\ gateway[id].payment_status = "unpaid")
            => (last.status = 402 /\ last.sent = <<>>)
       /\ (isMockId(id) /\ id \in DOMAIN checkoutSessions)
            => /\ last.status \notin {402, 404}
               /\ last.imageIds = checkoutSessions[id].imageIds
               /\ (\A k \in 1..Len(last.net) : last.net[k])
                    => (last.status = 200 /\ Len(last.sent) = Len(last.imageIds))

C2_Witness ==
  /\ last.op = "download"
  /\ last.sessionId \in DOMAIN checkoutSessions
  /\ ~isMockId(last.sessionId)
  /\ last.status = 402

\* C3: a CheckoutSession that is paid stays paid: no step takes an entry of the table
\* from paid to unpaid or removes it, and the gateway never reports unpaid for a
\* session it has reported paid.
C3_PaidMonotonic ==
  [][/\ \A id \in DOMAIN checkoutSessions :
          checkoutSessions[id].paid
            => (id \in DOMAIN checkoutSessions' /\ checkoutSessions'[id].paid)
     /\ \A id \in DOMAIN gateway :
          gateway[id].payment_status = "paid"
            => (id \in DOMAIN gateway' /\ gateway'[id].payment_status = "paid")]_vars

C3_Witness ==
  /\ \E id \in DOMAIN checkoutSessions : ~isMockId(id) /\ checkoutSessions[id].paid
  /\ last.op = "webhook"
  /\ last.status = 200
  /\ last.type # "checkout.session.completed"

PackIds ==
  LET flat(r) == [k \in 1..Len(r.images) |-> r.images[k].imageId]
      RECURSIVE all(_)
      all(n) == IF n = 0 THEN <<>> ELSE all(n - 1) \o flat(issued[n])
  IN all(Len(issued)) \o flat(pack)

\* C5: a pack that returns gives one result per style, in the order of the style
\* list, the i-th with style i and artifactId sessionId_style; no artifactId occurs
\* twice, within a pack or across packs.
C5_PackResults ==
  /\ \A n \in 1..Len(issued) :
       /\ Len(issued[n].images) = Len(styles)
       /\ \A i \in 1..Len(styles) :
            /\ issued[n].images[i].style = styles[i]
            /\ issued[n].images[i].imageId = issued[n].sessionId \o <<"_", styles[i]>>
  /\ \A a, b \in 1..Len(PackIds) : PackIds[a] = PackIds[b] => a = b

C5_Witness == Len(issued) = 2 /\ last.op = "pack" /\ last.result = "returned"

\* C6: create-checkout succeeds only if every supplied id has metadata: a request with
\* an unknown id answers 404 and creates no session, and every id bound to a session
\* (in the table, at the gateway or awaiting the gateway) is a key of the registry.
C6_KnownArtifacts ==
  /\ \A id \in DOMAIN checkoutSessions :
       \A k \in 1..Len(checkoutSessions[id].imageIds) :
         checkoutSessions[id].imageIds[k] \in DOMAIN imageStore
  /\ \A id \in DOMAIN gateway :
       \A k \in 1..Len(JSONparse(gateway[id].metadata.imageIds)) :
         JSONparse(gateway[id].metadata.imageIds)[k] \in DOMAIN imageStore
  /\ \A req \in inflight : \A k \in 1..Len(req.ids) : req.ids[k] \in DOMAIN imageStore
  /\ (last.op = "checkout" /\ \E k \in 1..Len(last.ids) : last.ids[k] \notin DOMAIN imageStore)
       => (last.status = 404 /\ last.sessionId = <<>>)

C6_Witness ==
  /\ last.op = "checkout"
  /\ last.status = 404
  /\ Len(last.ids) = 2
  /\ last.ids[1] \in DOMAIN imageStore

\* C7 as claimed: a signed payment-success webhook for a session of the table, and
\* also a download-time lookup that finds the gateway session paid, leave the
\* session's recorded state PAID.
C7_Claimed ==
  /\ (/\ last.op = "webhook" /\ last.status = 200
      /\ last.type = "checkout.session.completed"
      /\ last.sessionId \in DOMAIN checkoutSessions)
       => checkoutSessions[last.sessionId].paid
  /\ (/\ last.op = "download" /\ last.payment = "paid"
      /\ last.sessionId \in DOMAIN checkoutSessions)
       => checkoutSessions[last.sessionId].paid

\* C7: a signed payment-success webhook for a session of the table leaves its
\* recorded state PAID; a download changes no recorded state, so after a download-time
\* lookup that finds the gateway session paid the record is what it was before.
C7_WebhookRecordsPaid ==
  [][/\ (/\ webhookStatus(TRUE) = 200
         /\ last'.op = "webhook"
         /\ Webhook(TRUE, "checkout.session.completed", last'.sessionId)
         /\ last'.sessionId \in DOMAIN checkoutSessions)
          => checkoutSessions'[last'.sessionId].paid
     /\ (last'.op = "download" /\ Download(last'.sessionId, last'.net))
          => checkoutSessions' = checkoutSessions]_vars

C7_Witness ==
  /\ last.op = "download"
  /\ last.payment = "paid"
  /\ last.status = 200
  /\ last.sessionId \in DOMAIN checkoutSessions
  /\ ~checkoutSessions[last.sessionId].paid

\* C8: a session created with the gateway configured is recorded unpaid at creation;
\* one created without it is a mock session recorded paid; mock sessions exist only
\* without the gateway, and every mock session of the table is paid.
C8_MockPaid ==
  /\ \A id \in DOMAIN checkoutSessions :
       /\ isMockId(id) => (checkoutSessions[id].paid /\ ~getStripe)
       /\ ~isMockId(id) => getStripe
  /\ (last.op = "checkout" /\ last.status = 200)
       => /\ last.mock = ~getStripe
          /\ isMockId(last.sessionId) = last.mock
          /\ checkoutSessions[last.sessionId].paid = last.mock

C8_Witness ==
  /\ last.op = "checkout"
  /\ last.status = 200
  /\ ~last.mock
  /\ ~checkoutSessions[last.sessionId].paid

\* C9: every create-checkout that succeeds answers with a session id that is not yet
\* a key of the table, and leaves the artifact list of every existing session as it
\* was.
C9_FreshSessionId ==
  [][(/\ last'.op = "checkout" /\ last'.status = 200
      /\ (last' # last \/ checkoutSessions' # checkoutSessions))
       => /\ last'.sessionId \notin DOMAIN checkoutSessions
          /\ \A id \in DOMAIN checkoutSessions :
               checkoutSessions'[id].imageIds = checkoutSessions[id].imageIds]_vars

\* the positions of the list whose fetch succeeded
Fetched(r) == {k \in 1..Len(r.imageIds) : r.net[k]}

\* C10: in a multi-artifact download the archive is finalized whatever fetch fails; it
\* holds one entry per artifact whose fetch succeeded, in list order, and none for an
\* artifact whose fetch failed.
C10_ArchiveSkipsFailures ==
  (last.op = "download" /\ last.contentType = "application/zip") =>
    /\ last.status = 200
    /\ last.finalized
    /\ Len(last.sent) = Cardinality(Fetched(last))
    /\ \E pos \in [1..Len(last.sent) -> Fetched(last)] :
         /\ \A a, b \in 1..Len(last.sent) : a < b => pos[a] < pos[b]
         /\ \A a \in 1..Len(last.sent) : last.sent[a].id = last.imageIds[pos[a]]

C10_Witness ==
  /\ last.op = "download"
  /\ last.contentType = "application/zip"
  /\ Len(last.imageIds) >= 2
  /\ ~last.net[1]
  /\ last.net[2]
  /\ Len(last.sent) >= 1

\* the style -> display-name table of the download handler, as pairs
C11_Table ==
  {<<"oil-painting", "OilPainting">>, <<"studio-ghibli", "StudioGhibli">>,
   <<"mona-lisa", "Renaissance">>, <<"renaissance", "Renaissance">>,
   <<"vangogh", "VanGogh">>, <<"ghibli", "StudioGhibli">>,
   <<"disney", "DisneyPixar">>, <<"watercolor", "Watercolor">>}
C11_Display(theme) ==
  IF \E p \in C11_Table : p[1] = theme
  THEN (CHOOSE p \in C11_Table : p[1] = theme)[2]
  ELSE "Portrait"

\* C11: a multi-artifact download whose fetches all succeed sends an archive with one
\* entry per artifact, in list order, the i-th named after the display name the table
\* gives for artifact i's style, or after "Portrait" when the style is not in the table.
C11_ArchiveNames ==
  (/\ last.op = "download" /\ last.contentType = "application/zip"
   /\ \A k \in 1..Len(last.net) : last.net[k]
   /\ \A k \in 1..Len(last.imageIds) : last.imageIds[k] \in DOMAIN imageStore)
    => /\ Len(last.sent) = Len(last.imageIds)
       /\ Len(last.sent) >= 2
       /\ \A i \in 1..Len(last.sent) :
            /\ last.sent[i].id = last.imageIds[i]
            /\ last.sent[i].name =
                 <<"Valentines imagegen.studio", "/", "Valentine-Portrait-",
                   C11_Display(imageStore[last.imageIds[i]].theme), ".jpg">>

C11_Witness ==
  /\ last.op = "download"
  /\ last.contentType = "application/zip"
  /\ last.payment = "paid"
  /\ \A k \in 1..Len(last.net) : last.net[k]
  /\ \E i, j \in 1..Len(last.sent) :
       /\ last.sent[i].name[4] = "Portrait"
       /\ last.sent[j].name[4] = "Renaissance"

\* C12: a pack over N styles pauses N-1 times: when style i+1 is about to start or
\* its call is awaited, exactly i pauses have completed and i results are uploaded; a
\* pause is pending only after the upload of a style that is not the last; a pack
\* that returns has paused N-1 times.
C12_Pauses ==
  /\ pack.pc \in {"style", "calling"}
       => (pack.delays = pack.i /\ Len(pack.images) = pack.i)
  /\ pack.pc = "delay"
       => /\ pack.i < Len(styles) - 1
          /\ pack.delays = pack.i
          /\ Len(pack.images) = pack.i + 1
          /\ packFilename(<<styles[pack.i + 1]>>, pack.sessionId) \in DOMAIN bucket
  /\ pack.pc = "return"
       => (pack.delays = Len(styles) - 1 /\ Len(pack.images) = Len(styles))
  /\ (last.op = "pack" /\ last.result = "returned")
       => last.delays = Len(styles) - 1

C12_Witness ==
  /\ last.op = "pack"
  /\ last.result = "returned"
  /\ last.delays = 2
  /\ pack.pc = "delay"
  /\ pack.i = 0

\* C13: a pack normalizes its input once, before the first style; the styles are
\* taken in the declared order; while the call for style i+1 is awaited the results
\* of styles 1..i, and no others, are synthesized, uploaded and pushed.
C13_Sequential ==
  /\ pack.pc # "idle" => (pack.normalized = 1 /\ pack.processed.chain = "rotate")
  /\ pack.pc = "idle" => pack.normalized = 0
  /\ \A k \in 1..Len(pack.images) :
       /\ pack.images[k].style = styles[k]
       /\ packFilename(<<styles[k]>>, pack.sessionId) \in DOMAIN bucket
  /\ pack.pc = "calling"
       => /\ Len(pack.images) = pack.i
          /\ Len(pack.vias) = pack.i
          /\ \A k \in (pack.i + 1)..Len(styles) :
               packFilename(<<styles[k]>>, pack.sessionId) \notin DOMAIN bucket
  /\ (last.op = "pack" /\ last.result = "returned")
       => /\ last.normalized = 1
          /\ \A k \in 1..Len(styles) : last.images[k].style = styles[k]

C13_Witness ==
  /\ pack.pc = "calling"
  /\ pack.i = 2
  /\ pack.vias = <<"ai", "filter">>

\* C14: with an observer, style i (1-based) gets exactly one notification
\* {current: i, total: N, style: style_i}, emitted before its generative call is
\* answered; without an observer nothing is emitted, the pack still returns N
\* results, and no pack is rejected for a reason other than normalization or storage.
C14_Progress ==
  /\ pack.observer
       => /\ \A k \in 1..Len(pack.progress) :
               pack.progress[k] = [current |-> k, total |-> Len(styles), style |-> styles[k]]
          /\ pack.pc = "style" => Len(pack.progress) = pack.i
          /\ pack.pc = "calling"
               => (Len(pack.progress) = pack.i + 1 /\ Len(pack.vias) = pack.i)
  /\ ~pack.observer => pack.progress = <<>>
  /\ (last.op = "pack" /\ last.result = "returned")
       => /\ Len(last.images) = Len(styles)
          /\ last.progress =
               IF last.observer
               THEN [k \in 1..Len(styles) |->
                       [current |-> k, total |-> Len(styles), style |-> styles[k]]]
               ELSE <<>>
  /\ (last.op = "pack" /\ last.result = "rejected")
       => last.err \in {"heic-convert", "sharp", "Supabase not configured", "upload error"}

C14_Witness ==
  /\ last.op = "pack"
  /\ last.result = "returned"
  /\ ~last.observer
  /\ pack.observer
  /\ pack.pc = "calling"
  /\ pack.i = 1

\* the input was converted from a HEIC-family container, and cannot be re-encoded
C15_ConvertedOnly(img) == isHeic(img) /\ img.conv /\ ~img.dec
\* the input was not converted, and cannot be re-encoded
C15_Undecodable(img) == ~isHeic(img) /\ ~img.dec

\* C15: when the HEIC conversion took place and the re-encoding fails, normalization
\* hands on the converted bytes and the request goes on to synthesis; when no
\* conversion took place and the re-encoding fails, the request is rejected for its
\* format with no generative call and no upload. Stated for POST /generate and for
\* the pack.
C15_NormalizeFallback ==
  [][/\ last'.op = "generate" =>
          \A img \in Images, o \in Outcomes :
            Generate(last'.theme, img, o) =>
              /\ C15_ConvertedOnly(img) => last'.via # "none"
              /\ C15_Undecodable(img)
                   => /\ last'.status = 500
                      /\ last'.via = "none"
                      /\ last'.err = "Unable to process this image format"
                      /\ bucket' = bucket
     /\ pack.pc = "idle" =>
          \A img \in Images, ob \in BOOLEAN :
            PackStart(img, ob) =>
              /\ C15_ConvertedOnly(img)
                   => (pack'.pc = "style" /\ pack'.processed = convertHeicToJpeg(img).val)
              /\ C15_Undecodable(img)
                   => /\ pack'.pc = "idle"
                      /\ last'.result = "rejected"
                      /\ bucket' = bucket]_vars

\* C16: a POST /generate that passed validation while storage is unconfigured or the
\* upload fails answers 500 with no image id and no URL, and leaves the registry and
\* the bucket as they were; when synthesis had produced an output the error is the
\* storage error.
C16_StorageFatal ==
  [][(last'.op = "generate" /\ uuids' = uuids + 1 /\ ~last'.storage)
       => /\ last'.status = 500
          /\ last'.imageId = <<>>
          /\ last'.imageUrl = <<>>
          /\ imageStore' = imageStore
          /\ bucket' = bucket
          /\ (last'.via # "none" /\ last'.err # "sharp")
               => last'.err = "Failed to save generated image"]_vars

C16_Witness ==
  /\ last.op = "generate"
  /\ last.status = 500
  /\ last.via = "ai"
  /\ env.supabase
  /\ ~last.storage
  /\ last.err = "Failed to save generated image"

\* C17: an upload to a path, whether or not an object is already stored there,
\* succeeds whenever storage is configured and the transfer works, returns the public
\* URL of that path, leaves at that path the bytes of this call and every other
\* object as it was, and changes no key of the registry.
C17_UploadIdempotent ==
  [][last'.op = "upload"
       => /\ imageStore' = imageStore
          /\ last'.ok = (env.supabase /\ last'.upOk)
          /\ last'.ok
               => /\ last'.url = getPublicUrl(last'.path)
                  /\ DOMAIN bucket' = DOMAIN bucket \cup {last'.path}
                  /\ bucket'[last'.path] = last'.buffer
                  /\ \A f \in DOMAIN bucket : f # last'.path => bucket'[f] = bucket[f]
          /\ ~last'.ok => bucket' = bucket]_vars

C17_Witness ==
  /\ last.op = "upload"
  /\ last.ok
  /\ last.existed
  /\ last.replaced
  /\ last.path = uploadPath(uuidv4(1))
  /\ uuidv4(1) \in DOMAIN imageStore
  /\ imageStore[uuidv4(1)].imageUrl = last.url

\* C18: no request removes or changes an entry of the registry; only a successful
\* POST /generate adds one, under an id that was not a key before.
C18_RegistryAppendOnly ==
  [][/\ \A id \in DOMAIN imageStore :
          id \in DOMAIN imageStore' /\ imageStore'[id] = imageStore[id]
     /\ (last'.op = "generate" /\ last'.status = 200 /\ uuids' = uuids + 1)
          => /\ last'.imageId \notin DOMAIN imageStore
             /\ DOMAIN imageStore' = DOMAIN imageStore \cup {last'.imageId}
     /\ ~(last'.op = "generate" /\ last'.status = 200 /\ uuids' = uuids + 1)
          => imageStore' = imageStore]_vars

C18_Witness ==
  /\ Cardinality(DOMAIN imageStore) = 2
  /\ last.op = "images"
  /\ last.status = 200
  /\ Len(last.images) = 2
  /\ \E id \in DOMAIN checkoutSessions : checkoutSessions[id].paid /\ ~isMockId(id)

\* C19: POST /generate answers 400 exactly when the file is missing or a style was
\* supplied that is not a recognized one, so a request with a file and no style is
\* not answered 400; a 400 answer draws no id, uploads nothing and writes no registry
\* entry, and a request that reaches synthesis is never answered 400.
C19_BadRequestIff ==
  [][last'.op = "generate"
       => /\ \A h \in BOOLEAN :
               GenerateReject(h, last'.theme)
                 => (~h \/ (last'.theme # NoTheme /\ ~includes(validThemes, last'.theme)))
          /\ last'.status = 400
               => (imageStore' = imageStore /\ bucket' = bucket /\ uuids' = uuids)
          /\ uuids' = uuids + 1 => last'.status # 400]_vars

\* C20: a download or an image listing for a session id that is neither in the table
\* nor at the gateway answers 404 and sends nothing, for a mock-style id and for a
\* gateway-style id alike.
C20_SessionNotFound ==
  (/\ last.op \in {"download", "images"}
   /\ last.sessionId \notin DOMAIN checkoutSessions
   /\ last.sessionId \notin DOMAIN gateway)
    => /\ last.status = 404
       /\ last.op = "download" => last.sent = <<>>
       /\ last.op = "images" => last.images = <<>>

\* the '_'-separated segments of an id
RECURSIVE C21_Split(_)
C21_Split(id) ==
  IF \A k \in 1..Len(id) : id[k] # "_" THEN <<id>>
  ELSE LET k == CHOOSE k \in 1..Len(id) :
                  id[k] = "_" /\ \A j \in 1..(k - 1) : id[j] # "_"
       IN <<SubSeq(id, 1, k - 1)>> \o C21_Split(SubSeq(id, k + 1, Len(id)))

\* the segments joined by '_'
RECURSIVE C21_Join(_)
C21_Join(parts) ==
  IF Len(parts) = 1 THEN parts[1]
  ELSE parts[1] \o <<"_">> \o C21_Join(Tail(parts))

\* the item an id resolves to, as a list of one, or the empty list
C21_Item(id) ==
  LET parts == C21_Split(id)
      n == Len(parts)
  IN IF id \in DOMAIN imageStore
     THEN <<[imageId |-> id, imageUrl |-> imageStore[id].imageUrl,
             style |-> <<imageStore[id].theme>>]>>
     ELSE IF n >= 2
     THEN <<[imageId |-> id,
             imageUrl |-> <<SUPABASE_PUBLIC_URL, "/", "valentines", "/">>
                          \o C21_Join(SubSeq(parts, 1, n - 1)) \o <<"/">> \o parts[n]
                          \o <<".jpg">>,
             style |-> parts[n]]>>
     ELSE <<>>

RECURSIVE C21_List(_)
C21_List(ids) ==
  IF ids = <<>> THEN <<>> ELSE C21_Item(Head(ids)) \o C21_List(Tail(ids))

\* C21: an image listing for an existing mock session or a paid gateway session
\* answers 200 with, in the session's order, one item per id that resolves: from the
\* registry entry when there is one, else from the id's last '_' segment and the URL
\* built from the {uuid}_{style} form, an id with neither being left out; an unpaid
\* gateway session gets 402 and no list; nothing else is answered 200.
C21_ImageListing ==
  last.op = "images" =>
    LET id == last.sessionId
        atGateway == ~isMockId(id) /\ getStripe /\ id \in DOMAIN gateway
    IN /\ (isMockId(id) /\ id \in DOMAIN checkoutSessions)
            => /\ last.status = 200
               /\ last.images = C21_List(checkoutSessions[id].imageIds)
       /\ (atGateway /\ gateway[id].payment_status = "paid")
            => /\ last.status = 200
               /\ last.images = C21_List(JSONparse(gateway[id].metadata.imageIds))
       /\ (atGateway /\ gateway[id].payment_status # "paid")
            => (last.status = 402 /\ last.images = <<>>)
       /\ last.status = 200
            => \/ isMockId(id) /\ id \in DOMAIN checkoutSessions
               \/ atGateway /\ gateway[id].payment_status = "paid"

C21_Witness ==
  /\ last.op = "images"
  /\ last.status = 200
  /\ last.payment = "paid"
  /\ Len(JSONparse(gateway[last.sessionId].metadata.imageIds)) = 3
  /\ Len(last.images) = 2
  /\ last.images[1].imageUrl[1] # SUPABASE_PUBLIC_URL
  /\ last.images[2].imageUrl[1] = SUPABASE_PUBLIC_URL
  /\ last.images[2].style = <<"ghibli">>

\* C22: in a pack with working storage, the iteration for a style ends with that
\* style's result pushed, generated when its own generative call gave a decodable
\* image and from the style's fallback otherwise, whatever happened to the styles
\* before it; their results stay as they were and the loop goes on.
C22_IndependentFallback ==
  [][pack.pc = "calling" =>
       \A o \in Outcomes :
         (PackStyle(o) /\ env.supabase /\ o.upOk) =>
           LET style == styles[pack.i + 1]
               object == bucket'[packFilename(<<style>>, pack.sessionId)]
           IN /\ pack'.pc \in {"delay", "return"}
              /\ pack'.i = pack.i
              /\ Len(pack'.images) = Len(pack.images) + 1
              /\ SubSeq(pack'.images, 1, Len(pack.images)) = pack.images
              /\ pack'.vias =
                   Append(pack.vias, IF genOutcome(o) = "image" THEN "ai" ELSE "filter")
              /\ object.chain = (IF genOutcome(o) = "image" THEN "none" ELSE style)
              /\ object.from = (IF genOutcome(o) = "image" THEN "ai" ELSE "sharp")]_vars

C22_Witness ==
  /\ last.op = "pack"
  /\ last.result = "returned"
  /\ last.vias = <<"filter", "ai", "filter">>
  /\ pack.vias = <<"ai", "filter">>

\* how often a call occurs in a list of calls
RECURSIVE C23_Count(_, _)
C23_Count(calls, c) ==
  IF calls = <<>> THEN 0
  ELSE (IF calls[1] = c THEN 1 ELSE 0) + C23_Count(Tail(calls), c)

\* the calls of one style or one portrait: each kind at most once, the generative
\* call first, the fallback exactly when the generative step gave no image
C23_Single(calls, gen) ==
  /\ \A c \in {"gemini", "filter", "upload"} : C23_Count(calls, c) <= 1
  /\ \A k \in 1..Len(calls) : calls[k] = "gemini" => k = 1
  /\ \A k \in 1..Len(calls) : calls[k] = "upload" => k = Len(calls)
  /\ C23_Count(calls, "filter") = (IF gen = "image" THEN 0 ELSE 1)
  /\ C23_Count(calls, "gemini") = (IF gen = "unconfigured" THEN 0 ELSE 1)

\* C23: nothing is retried. A portrait request that reached the generation step,
\* and every style of a pack, made at most one generative call, ran the fallback
\* at most once and only when the generative step had given no image, and
\* attempted at most one upload, after both.
C23_NoRetry ==
  /\ [](last.op = "generate" /\ last.via # "none" => C23_Single(last.calls, last.gen))
  /\ [][pack.pc = "calling" =>
          \A o \in Outcomes :
            PackStyle(o) =>
              LET calls == IF pack'.pc = "idle" THEN last'.calls ELSE pack'.calls
              IN /\ Len(calls) = Len(pack.calls) + 1
                 /\ SubSeq(calls, 1, Len(pack.calls)) = pack.calls
                 /\ C23_Single(calls[Len(calls)], genOutcome(o))
                 /\ C23_Count(calls[Len(calls)], "upload") = 1]_vars

C23_Witness ==
  /\ last.op = "generate"
  /\ last.calls = <<"gemini", "filter", "upload">>
  /\ pack.pc = "return"
  /\ pack.calls = << <<"gemini", "upload">>, <<"gemini", "filter", "upload">>,
                     <<"gemini", "filter", "upload">> >>

\* the pack with the n-th session id is running
C24_Running(n) == pack.pc # "idle" /\ pack.sessionId = uuidv4(n)

\* the pack with the n-th session id has ended, with all styles or with an error
C24_Ended(n) ==
  /\ pack.sessionId # uuidv4(n)
  /\ last.op = "pack"
  /\ last.sessionId = uuidv4(n)
  /\ \/ last.result = "returned" /\ Len(last.images) = Len(styles)
     \/ last.result = "rejected"

\* C24: when every awaited call settles, a started pack ends, and it ends either
\* by returning one result for each style, in the styles' order, or by throwing;
\* no returned list is shorter than the style list.
C24_Terminates ==
  /\ \A n \in 1..MaxUuid : C24_Running(n) ~> C24_Ended(n)
  /\ [](last.op = "pack" =>
          /\ last.result \in {"returned", "rejected"}
          /\ last.result = "returned" =>
               /\ Len(last.images) = Len(styles)
               /\ \A k \in 1..Len(styles) : last.images[k].style = styles[k])

C24_Witness ==
  /\ pack.pc = "idle"
  /\ last.op = "pack"
  /\ last.result = "returned"
  /\ Len(last.images) = Len(styles)
  /\ Len(issued) = 1
  /\ uuids = 2

\* the buffers that were handed to the upload step and stored
C25_Uploaded == {bucket[f] : f \in DOMAIN bucket}

\* C25: every buffer handed to the upload step is a re-encoding that was resized
\* to a target resolution, and all of them, from the generative path or from the
\* fallback path, have the same target resolution and the same quality.
C25_FixedEncoding ==
  /\ \A b \in C25_Uploaded : b.kind = "sharp" /\ b.fit # "none"
  /\ \A a, b \in C25_Uploaded : a.w = b.w /\ a.h = b.h /\ a.quality = b.quality

\* C26: POST /generate normalizes, synthesizes, uploads, records, answers. No
\* synthesis or upload follows a failed normalization and the upload is the last
\* call; the registry gains an entry only in a request whose upload succeeded, for
\* the object just stored; and the artifact id of a success response is a registry
\* key whose entry carries the returned URL and the requested theme.
C26_PipelineOrder ==
  /\ [](last.op = "generate" =>
          /\ last.via = "none" => last.calls = <<>>
          /\ \A k \in 1..Len(last.calls) :
               last.calls[k] = "upload" => k = Len(last.calls) /\ k > 1
          /\ last.status = 200 =>
               /\ last.calls # <<>> /\ last.calls[Len(last.calls)] = "upload"
               /\ last.imageId \in DOMAIN imageStore
               /\ imageStore[last.imageId].imageUrl = last.imageUrl
               /\ imageStore[last.imageId].theme = last.theme)
  /\ [](\A id \in DOMAIN imageStore :
          /\ uploadPath(id) \in DOMAIN bucket
          /\ imageStore[id].imageUrl = getPublicUrl(uploadPath(id)))
  /\ [][imageStore' # imageStore =>
          /\ last'.op = "generate" /\ last'.status = 200 /\ last'.storage
          /\ DOMAIN imageStore' = DOMAIN imageStore \cup {last'.imageId}
          /\ last'.imageId \notin DOMAIN imageStore
          /\ uploadPath(last'.imageId) \notin DOMAIN bucket]_vars

C26_Witness ==
  /\ last.op = "generate"
  /\ last.status = 200
  /\ last.calls = <<"gemini", "filter", "upload">>
  /\ uuids = 2
  /\ DOMAIN imageStore = {last.imageId}

\* the ids a body supplies: the list when it has one, else the single id
C27_Supplied(body) ==
  IF Len(body.imageIds) > 0 THEN body.imageIds
  ELSE IF body.imageId # <<>> THEN <<body.imageId>>
  ELSE <<>>

\* what a create-checkout step did with a body
C27_Bound(body) ==
  LET ids == C27_Supplied(body)
  IN /\ last'.op = "checkout"
     /\ (last'.status = 400) = (ids = <<>>)
     /\ last'.status = 200 =>
          /\ last'.sessionId \in DOMAIN checkoutSessions'
          /\ checkoutSessions'[last'.sessionId].imageIds = ids
     /\ last'.status # 200 => checkoutSessions' = checkoutSessions

\* the same, for the router of routes/generate.js alone
C27_BindsSuppliedGenerate ==
  [][\A body \in BindBodies :
       (CheckoutReject(body) \/ \E now \in 0..MaxClock : CheckoutMock(body, now))
         => C27_Bound(body)]_vars

\* C27: create-checkout binds to the new session the ids the body supplies, in
\* their order: imageIds when it is a non-empty list, else the single imageId,
\* with or without the bundle field; a body that supplies none is answered 400
\* and leaves the session table as it was. Stated for both routers.
C27_BindsSupplied ==
  [][\A body \in BindBodies :
       (\/ CheckoutReject(body)
        \/ \E now \in 0..MaxClock : CheckoutMock(body, now)
        \/ PaymentCheckoutReject(body)
        \/ \E now \in 0..MaxClock : PaymentCheckoutMock(body, now))
         => C27_Bound(body)]_vars

\* the style recorded for an archive entry's artifact
C28_Style(entry) == imageStore[entry.id].theme

\* C28: in the archive of a multi-artifact download, two entries whose artifacts
\* have different styles have different names, whether or not the styles are in
\* the display-name table.
C28_DistinctNames ==
  (last.op = "download" /\ last.contentType = "application/zip")
    => \A i, j \in 1..Len(last.sent) :
         C28_Style(last.sent[i]) # C28_Style(last.sent[j])
           => last.sent[i].name # last.sent[j].name

C28_Witness ==
  /\ last.op = "download"
  /\ last.contentType = "application/zip"
  /\ Len(last.sent) = 2
  /\ C28_Style(last.sent[1]) = "anime"
  /\ C28_Style(last.sent[2]) = "ghibli"
  /\ themeNames("anime") = ""

\* the last request handled was a signed payment-success webhook for session id
C30_Handled(id) ==
  /\ last.op = "webhook"
  /\ last.status = 200
  /\ last.sigOk
  /\ last.type = "checkout.session.completed"
  /\ last.sessionId = id

\* the same, for webhooks handled once the session is in the table
C30_LateWebhook ==
  \A id \in DOMAIN checkoutSessions : C30_Handled(id) => checkoutSessions[id].paid

\* C30: when a signed payment-success webhook for a gateway session has been
\* handled and create-checkout for the session has completed, the table records
\* the session paid, in either order: a webhook handled with the session in the
\* table leaves it paid, and a create-checkout that completes right after the
\* session's webhook was handled leaves it paid too.
C30_WebhookNotLost ==
  [][/\ \A id \in DOMAIN checkoutSessions' : C30_Handled(id)' => checkoutSessions'[id].paid
     /\ \A req \in inflight :
          (C30_Handled(req.id) /\ CheckoutFinish(req)) => checkoutSessions'[req.id].paid]_vars

\* the first pack is suspended: awaiting its generative call or in its pause
C29_Suspended == pack.pc \in {"calling", "delay"}

\* the stored objects of the results a pack has accumulated, in order
C29_Stored(p, b) ==
  [k \in 1..Len(p.images) |-> b[packFilename(<<p.images[k].style>>, p.sessionId)]]

\* C29: a suspended pack does not hold up the process. While it awaits its call or
\* its pause, a second pack can start or take its next step and create-checkout,
\* webhook and download requests can be served; a step that changes the second
\* pack, the registry, the session table or the last response leaves the suspended
\* pack's sessionId, style index and results as they were, and no step but the
\* pack's own changes the objects stored for its results; and the pause ends with
\* the same sessionId and results at the next style.
C29_PauseIsLocal ==
  /\ [](C29_Suspended =>
          /\ ENABLED (\E body \in Bodies :
                        \/ CheckoutReject(body)
                        \/ \E now \in 0..MaxClock : CheckoutMock(body, now))
          /\ ENABLED (\E sig \in BOOLEAN, ty \in EventTypes, id \in SessionIds :
                        Webhook(sig, ty, id))
          /\ ENABLED (\E id \in SessionIds, net \in NetOutcomes : Download(id, net))
          /\ (other.pc = "idle" /\ uuids < MaxUuid)
               => ENABLED (\E img \in PayImages : OtherStart(img))
          /\ other.pc # "idle"
               => ENABLED (\/ OtherCall
                           \/ \E o \in ConcOutcomes : OtherStyle(o)
                           \/ OtherDelay
                           \/ OtherReturn))
  /\ [][C29_Suspended =>
          /\ pack' # pack =>
               /\ other' = other
               /\ checkoutSessions' = checkoutSessions
               /\ imageStore' = imageStore
               /\ issued' = issued
               /\ last' = last
          /\ pack' = pack => C29_Stored(pack, bucket') = C29_Stored(pack, bucket)]_vars
  /\ [][(pack.pc = "delay" /\ pack' # pack) =>
          /\ pack'.pc = "style"
          /\ pack'.sessionId = pack.sessionId
          /\ pack'.i = pack.i + 1
          /\ pack'.images = pack.images]_vars

C29_Witness ==
  /\ pack.pc = "delay"
  /\ pack.i = 0
  /\ pack.sessionId = uuidv4(1)
  /\ Len(issued) = 1
  /\ issued[1].sessionId = uuidv4(2)
  /\ Len(issued[1].images) = Len(styles)
  /\ other.pc = "idle"
  /\ last.op = "download"

\* the sessions the gateway holds, and an id it does not know
C31_GatewayIds == DOMAIN gateway \cup {<<"cs", "_", "ghost">>}

\* C31: for a session id without the mock prefix, what GET /download and
\* GET /images answer does not depend on the local session table. Across every
\* step that changes the table and leaves the gateway, the registry and the
\* storage as they were (an entry is inserted unpaid, an entry is set paid), each
\* such request gets the same answer before and after, for every outcome of its
\* fetches.
C31_TableBlind ==
  [][(/\ checkoutSessions' # checkoutSessions
      /\ gateway' = gateway /\ imageStore' = imageStore /\ bucket' = bucket)
       => \A id \in C31_GatewayIds :
            /\ imagesOutcome(id)' = imagesOutcome(id)
            /\ downloadGate(id)' = downloadGate(id)
            /\ \A net \in NetOutcomes :
                 Len(net) = Len(downloadGate(id).imageIds)
                   => downloadOutcome(id, net)' = downloadOutcome(id, net)]_vars

C31_Witness ==
  /\ last.op = "images"
  /\ last.status = 200
  /\ last.payment = "paid"
  /\ last.sessionId \in DOMAIN checkoutSessions
  /\ ~checkoutSessions[last.sessionId].paid
  /\ downloadGate(last.sessionId).status = 0

\* C32: with the gateway configured, the session table holds no mock session, a
\* download or listing request for a mock_ id is answered 404, and a download or
\* listing answered 200 is for a session the gateway holds and reported paid to
\* that request.
C32_NoMockWithGateway ==
  env.stripe =>
    /\ \A id \in DOMAIN checkoutSessions : ~isMockId(id)
    /\ last.op \in {"download", "images"} =>
         /\ isMockId(last.sessionId) => last.status = 404
         /\ last.status = 200 =>
              /\ last.payment = "paid"
              /\ last.sessionId \in DOMAIN gateway
              /\ gateway[last.sessionId].payment_status = "paid"

C32_Witness ==
  /\ env.stripe
  /\ last.op = "download"
  /\ isMockId(last.sessionId)
  /\ last.status = 404
  /\ \E id \in DOMAIN gateway : gateway[id].payment_status = "paid"
  /\ checkoutSessions # EmptyMap

\* C33: when the upload of a pack's style fails, the pack throws the storage
\* error: nothing is added to the returned result lists, the run ends there with
\* no call, upload or pause for a later style, storage is left as it was with the
\* objects of the earlier styles in it, and the session never returns a list.
C33_UploadFailureFatal ==
  /\ [][pack.pc = "calling" =>
          \A o \in Outcomes :
            (PackStyle(o) /\ ~(env.supabase /\ o.upOk)) =>
              /\ pack' = IdlePack
              /\ last'.op = "pack"
              /\ last'.result = "rejected"
              /\ last'.sessionId = pack.sessionId
              /\ last'.err \in {"upload error", "Supabase not configured"}
              /\ issued' = issued
              /\ bucket' = bucket
              /\ \A j \in 1..pack.i :
                   packFilename(<<styles[j]>>, pack.sessionId) \in DOMAIN bucket'
              /\ Len(last'.calls) = pack.i + 1
              /\ last'.delays = pack.i]_vars
  /\ []((last.op = "pack" /\ last.result = "rejected") =>
          /\ pack.sessionId # last.sessionId
          /\ \A n \in 1..Len(issued) : issued[n].sessionId # last.sessionId)

C33_Witness ==
  /\ last.op = "pack"
  /\ last.result = "rejected"
  /\ last.err = "upload error"
  /\ Len(last.calls) = 2
  /\ last.delays = 1
  /\ packFilename(<<styles[1]>>, last.sessionId) \in DOMAIN bucket
  /\ packFilename(<<styles[2]>>, last.sessionId) \notin DOMAIN bucket
  /\ pack = IdlePack

\* the k-th fetch of the last download failed: no registry URL, a failed request,
\* or no object behind the URL
C34_Failed(k) ==
  \/ ~last.net[k]
  \/ last.imageIds[k] \notin DOMAIN imageStore
  \/ urlPath(imageStore[last.imageIds[k]].imageUrl) \notin DOMAIN bucket

\* C34: a download that passed the payment gate with one artifact answers 500 with
\* no file when its fetch fails, and the JPEG otherwise; with two or more artifacts
\* it answers 200 with a finalized application/zip archive whatever fails, holding
\* as many entries as fetches succeeded: none when all fail.
C34_FetchFailure ==
  (last.op = "download" /\ last.imageIds # <<>>) =>
    /\ Len(last.imageIds) = 1 =>
         IF C34_Failed(1)
         THEN /\ last.status = 500
              /\ last.contentType = "application/json"
              /\ last.sent = <<>>
         ELSE /\ last.status = 200
              /\ last.contentType = "image/jpeg"
              /\ Len(last.sent) = 1
    /\ Len(last.imageIds) >= 2 =>
         /\ last.status = 200
         /\ last.contentType = "application/zip"
         /\ last.finalized
         /\ Len(last.sent) =
              Cardinality({k \in 1..Len(last.imageIds) : ~C34_Failed(k)})

C34_Witness ==
  /\ last.op = "download"
  /\ last.contentType = "application/zip"
  /\ last.status = 200
  /\ Len(last.imageIds) = 2
  /\ last.sent = <<>>
  /\ last.net[1]
  /\ ~last.net[2]
  /\ last.imageIds[1] \notin DOMAIN imageStore
  /\ last.imageIds[2] \in DOMAIN imageStore

\* the results packs have produced: those returned, and those of the running pack
C35_Produced ==
  {[sessionId |-> issued[n].sessionId, image |-> issued[n].images[i]] :
     n \in 1..Len(issued), i \in 1..Len(styles)}
  \cup {[sessionId |-> pack.sessionId, image |-> pack.images[i]] :
          i \in 1..Len(pack.images)}

\* C35: for every artifact id a pack produced, the id splits at its last '_' into
\* the pack's sessionId and the artifact's style, and the URL GET /images builds
\* from the id has the path valentines/{sessionId}/{style}.jpg, which is the path
\* of the object the pack stored for the artifact and of the URL the pack returned.
C35_IdPathRoundTrip ==
  \A r \in C35_Produced :
    LET id == r.image.imageId
        k == lastUnderscore(id)
        path == urlPath(constructImageUrl(id))
    IN /\ k > 0
       /\ SubSeq(id, 1, k - 1) = r.sessionId
       /\ extractStyle(id) = <<r.image.style>>
       /\ path = <<"valentines", "/">> \o r.sessionId \o <<"/", r.image.style, ".jpg">>
       /\ path = packFilename(<<r.image.style>>, r.sessionId)
       /\ path \in DOMAIN bucket
       /\ path = urlPath(r.image.imageUrl)

C35_Witness ==
  /\ Len(issued) = 1
  /\ Len(pack.images) = 2
  /\ Cardinality(C35_Produced) = 5
  /\ \A r \in C35_Produced : constructImageUrl(r.image.imageId) # <<>>
====
